---- MODULE Spec2Model ----
(***************************************************************************)
(* The plan-execute-select pipeline of PlannerAgent (src/main.py) working  *)
(* on one PlanningState (src/state/model.py).                              *)
(*                                                                         *)
(* Texts are records [kind, s, y, m, d]: a date-shaped text dddd-dd-dd     *)
(* keeps its digits, other texts keep a name.  "Tokyo", "anime" and "food" *)
(* stand for the literals of src/main.py lines 192, 197 and 199.           *)
(***************************************************************************)
EXTENDS Integers, Sequences, FiniteSets, TLC

VARIABLES
    current_plan,       \* PlanningState.current_plan
    execution_history,  \* PlanningState.execution_history
    search_results,     \* PlanningState.search_results, in insertion order
    final_itinerary,    \* PlanningState.final_itinerary
    global_score,       \* PlanningState.global_score: <<>> is None, <<v>> is v
    constraints,        \* PlanningState.constraints
    final_alias,        \* index of the cost-table entry that final_itinerary is
                        \* the same dict object as (0: none)
    last_call,          \* what the last method call did (observation only)
    pc                  \* position of the pipeline invoker

vars == <<current_plan, execution_history, search_results, final_itinerary,
          global_score, constraints, final_alias, last_call, pc>>

-----------------------------------------------------------------------------
(* Bounds *)

MaxPlan == 2

MaxDates == 2

MaxResp == 4

MaxProposal == 2

MaxItems == 6

-----------------------------------------------------------------------------
(* Texts and Python values *)

Txt(name) == [kind |-> "text", s |-> name, y |-> 0, m |-> 0, d |-> 0]

DateTxt(yy, mm, dd) == [kind |-> "date", s |-> "", y |-> yy, m |-> mm, d |-> dd]

\* the four characters None
NoneTxt == [kind |-> "none", s |-> "", y |-> 0, m |-> 0, d |-> 0]

\* the empty string
EmptyTxt == [kind |-> "empty", s |-> "", y |-> 0, m |-> 0, d |-> 0]

\* Python's None
PyNone == [kind |-> "pynone", s |-> "", y |-> 0, m |-> 0, d |-> 0]

Truthy(v) == v.kind \notin {"pynone", "empty"}

SeqsUpTo(S, n) == UNION {[1..k -> S] : k \in 0..n}

\* last_call when no method has been called yet
NoCall == [op |-> "none", raised |-> FALSE, proposal |-> <<>>, invoked |-> <<>>,
           narrated |-> FALSE, response |-> <<>>, anime_spots |-> <<>>, food_spots |-> <<>>]

-----------------------------------------------------------------------------
(* Tool-call strings: name(key=value, ...) *)

ArgKeys == {"departure_city", "destination_city", "departure_date", "return_date",
            "destination", "checkin_date", "checkout_date", "interest"}

\* an argument as written in the call string: key=text or key="text"
Arg(q, t) == [present |-> TRUE, quoted |-> q, text |-> t]

Absent == [present |-> FALSE, quoted |-> FALSE, text |-> EmptyTxt]

Call(name, given) ==
    [name |-> name,
     args |-> [k \in ArgKeys |-> IF k \in DOMAIN given THEN given[k] ELSE Absent]]

FlightCall(name, dep, ret) ==
    Call(name, [k \in {"departure_city", "destination_city", "departure_date", "return_date"} |->
                  CASE k = "departure_city" -> Arg(TRUE, Txt("Taipei"))
                    [] k = "destination_city" -> Arg(TRUE, Txt("Tokyo"))
                    [] k = "departure_date" -> dep
                    [] OTHER -> ret])

HotelCall(name, dest, cin, cout) ==
    Call(name, [k \in {"destination", "checkin_date", "checkout_date"} |->
                  CASE k = "destination" -> dest
                    [] k = "checkin_date" -> cin
                    [] OTHER -> cout])

AttractionCall(name, dest, interest) ==
    Call(name, [k \in {"destination", "interest"} |->
                  IF k = "destination" THEN dest ELSE interest])

\* self.tools
ToolNames == {"search_flights", "search_hotels", "search_attractions"}

\* args_schema of each adapter: the fields without a default
Required(tool) ==
    CASE tool = "search_flights" -> {"departure_city", "destination_city", "departure_date"}
      [] tool = "search_hotels" -> {"destination", "checkin_date", "checkout_date"}
      [] OTHER -> {"destination", "interest"}

-----------------------------------------------------------------------------
(* generate_initial_plan *)

\* February has 29 days in a leap year
IsLeap(yy) == (yy % 4 = 0 /\ yy % 100 # 0) \/ yy % 400 = 0

DaysInMonth(yy, mm) ==
    CASE mm \in {4, 6, 9, 11} -> 30
      [] mm = 2 -> IF IsLeap(yy) THEN 29 ELSE 28
      [] OTHER -> 31

ShapeOnly(t) == t.kind = "date"

\* datetime.strptime(date_str, "%Y-%m-%d") does not raise ValueError
IsValidDate(t) ==
    /\ t.kind = "date"
    /\ t.y >= 1
    /\ t.m >= 1 /\ t.m <= 12
    /\ t.d >= 1 /\ t.d <= DaysInMonth(t.y, t.m)

\* the names that hold the tool name as a substring
Containing(tool) ==
    CASE tool = "search_flights" -> {"search_flights", "my_search_flights"}
      [] tool = "search_hotels" -> {"search_hotels", "search_hotels_v2"}
      [] OTHER -> {"search_attractions"}

\* "search_flights" in step: the test looks at the whole string, the argument
\* texts included (Txt(tool) is an argument text that holds the tool's name)
Mentions(step, tool) ==
    \/ step.name \in Containing(tool)
    \/ \E k \in ArgKeys : step.args[k].present /\ step.args[k].text = Txt(tool)

\* "departure_date=" in step
HasArg(step, key) == step.args[key].present

\* re.search(key + r'="(\d{4}-\d{2}-\d{2})"', step) finds a date
DateMatch(step, key) ==
    step.args[key].present /\ step.args[key].quoted /\ step.args[key].text.kind = "date"

\* 'return_date="None"' in step
QuotedNone(step, key) ==
    step.args[key].present /\ step.args[key].quoted /\ step.args[key].text.kind = "none"

\* not date_match or not self.is_valid_date(date_match.group(1))
BadDate(step, key) == ~DateMatch(step, key) \/ ~IsValidDate(step.args[key].text)

KeepsEverything(step) == TRUE

KeepsHotelsUnchecked(step) ==
    IF Mentions(step, "search_flights")
    THEN /\ ~(HasArg(step, "departure_date") /\ BadDate(step, "departure_date"))
         /\ ~(HasArg(step, "return_date") /\ ~QuotedNone(step, "return_date")
                /\ BadDate(step, "return_date"))
    ELSE Mentions(step, "search_hotels") \/ Mentions(step, "search_attractions")

\* whether the validation loop appends the step to validated_plan
Keeps(step) ==
    IF Mentions(step, "search_flights")
    THEN /\ ~(HasArg(step, "departure_date") /\ BadDate(step, "departure_date"))
         /\ ~(HasArg(step, "return_date") /\ ~QuotedNone(step, "return_date")
                /\ BadDate(step, "return_date"))
    ELSE IF Mentions(step, "search_hotels")
    THEN /\ HasArg(step, "checkin_date") /\ HasArg(step, "checkout_date")
         /\ ~BadDate(step, "checkin_date")
         /\ ~BadDate(step, "checkout_date")
    ELSE Mentions(step, "search_attractions")

\* An element of the proposed plan list: a string, or a JSON number
Element(step) == [is_text |-> TRUE, call |-> step]

NumberElement == [is_text |-> FALSE, call |-> [name |-> "", args |-> [k \in ArgKeys |-> Absent]]]

\* The planning oracle's response:
\*   fence: "none", "json" (wrapped in ```json ... ```) or "plain" (``` ... ```)
\*   json:  "invalid", "scalar" (valid JSON that is no object) or "object"
\*   plan:  "absent", "null" or "list", with the elements in steps
OracleResponse(fence, json, plan, steps) ==
    [fence |-> fence, json |-> json, plan |-> plan, steps |-> steps]

FenceIgnored(response) == response

\* re.sub(r'^```json\n|\n```$', '', response_str).strip() leaves JSON text:
\* a plain fence keeps its opening ``` line
Cleaned(response) ==
    IF response.fence = "plain" THEN [response EXCEPT !.json = "invalid"] ELSE response

RECURSIVE ValidatedFrom(_, _)
ValidatedFrom(steps, i) ==
    IF i > Len(steps) THEN <<>>
    ELSE (IF Keeps(steps[i].call) THEN <<steps[i].call>> ELSE <<>>)
         \o ValidatedFrom(steps, i + 1)

\* response_json.get raises AttributeError, iterating None raises TypeError,
\* `"search_flights" in step` raises TypeError on a number: none is caught
PlanningRaises(response) ==
    /\ response.json # "invalid"
    /\ \/ response.json = "scalar"
       \/ response.plan = "null"
       \/ response.plan = "list" /\ \E i \in 1..Len(response.steps) : ~response.steps[i].is_text

GenerateInitialPlan(Responses) ==
    /\ pc \in {"new", "planned"}
    /\ \E response_str \in Responses :
          LET response_json == Cleaned(response_str)
              called == [NoCall EXCEPT !.op = "generate_initial_plan",
                                       !.proposal = response_str]
          IN  IF response_json.json = "invalid"
              THEN /\ current_plan' = <<>>
                   /\ last_call' = called
                   /\ pc' = "planned"
              ELSE IF PlanningRaises(response_json)
              THEN /\ last_call' = [called EXCEPT !.raised = TRUE]
                   /\ pc' = "failed"
                   /\ UNCHANGED current_plan
              ELSE /\ current_plan' =
                         IF response_json.plan = "absent" THEN <<>>
                         ELSE ValidatedFrom(response_json.steps, 1)
                   /\ last_call' = called
                   /\ pc' = "planned"
    /\ UNCHANGED <<execution_history, search_results, final_itinerary, global_score,
                   constraints, final_alias>>

-----------------------------------------------------------------------------
(* execute_plan *)

\* tool_name = step.split("(")[0]
ToolName(step) == step.name

\* next((t for t in self.tools if t.name == tool_name), None)
Resolves(step) == ToolName(step) \in ToolNames

\* the params dict: quotes stripped, the text None turned into None
ParseParams(step) ==
    [k \in {a \in ArgKeys : step.args[a].present} |->
        IF step.args[k].text.kind = "none" THEN PyNone ELSE step.args[k].text]

\* dict.get
Get(params, k) == IF k \in DOMAIN params THEN params[k] ELSE PyNone

\* tool.invoke validates params against args_schema before calling the adapter
SchemaOK(tool, params) ==
    \A k \in Required(tool) : k \in DOMAIN params /\ params[k].kind # "pynone"

\* What tool.invoke(params) followed by json.loads can do:
\*   list: the adapter returns the JSON text of a list of offers
\*   error_payload: the adapter returns the JSON text of {"error": ...}
\*   throws: tool.invoke raises
\*   undecodable: the adapter returns text json.loads cannot decode
ListOutcome(offers) == [kind |-> "list", offers |-> offers]

PayloadOutcome == [kind |-> "error_payload", offers |-> <<>>]

ThrowsOutcome == [kind |-> "throws", offers |-> <<>>]

UndecodableOutcome == [kind |-> "undecodable", offers |-> <<>>]

Fails(out) == out.kind \in {"throws", "undecodable"}

\* dateutil's parse and strptime accept the text as a date
Parseable(v) == v.kind = "date" /\ IsValidDate(v)

\* checkout_date_obj <= checkin_date_obj is refused
Later(a, b) ==
    \/ a.y > b.y
    \/ a.y = b.y /\ a.m > b.m
    \/ a.y = b.y /\ a.m = b.m /\ a.d > b.d

\* the adapter's date checks let the search go on instead of returning an
\* error payload
DatesAccepted(tool, params) ==
    CASE tool = "search_flights" ->
            /\ Parseable(params["departure_date"])
            /\ Truthy(Get(params, "return_date")) => Parseable(Get(params, "return_date"))
      [] tool = "search_hotels" ->
            /\ Parseable(params["checkin_date"])
            /\ Parseable(params["checkout_date"])
            /\ Later(params["checkout_date"], params["checkin_date"])
      [] OTHER -> TRUE

\* an outcome the adapter can have on this step
Possible(step, out) ==
    IF ~SchemaOK(ToolName(step), ParseParams(step)) THEN out.kind = "throws"
    ELSE out.kind = "list" => DatesAccepted(ToolName(step), ParseParams(step))

\* execution_results.append(...) of lines 158 and 162
StepRecord(step, out) ==
    IF Fails(out)
    THEN [tool |-> ToolName(step), params |-> ParseParams(step), error |-> out.kind]
    ELSE [tool |-> ToolName(step), params |-> ParseParams(step),
          result |-> [kind |-> IF out.kind = "list" THEN "list" ELSE "error",
                      offers |-> out.offers]]

\* one iteration of the loop: the records it appends
LoopBody(step, out) ==
    IF ~Resolves(step) THEN <<>> ELSE <<StepRecord(step, out)>>

RECURSIVE RunFrom(_, _, _)
RunFrom(plan, outs, i) ==
    IF i > Len(plan) THEN <<>>
    ELSE LoopBody(plan[i], outs[i]) \o RunFrom(plan, outs, i + 1)

InvokedTwice(plan, i) == [k \in 1..(2 * Len(plan)) |-> (k + 1) \div 2]

\* the steps whose adapter is invoked, in order of invocation
RECURSIVE InvokedFrom(_, _)
InvokedFrom(plan, i) ==
    IF i > Len(plan) THEN <<>>
    ELSE (IF Resolves(plan[i]) THEN <<i>> ELSE <<>>) \o InvokedFrom(plan, i + 1)

\* a or b or c: the first truthy operand, else the last operand
DateKey(params) ==
    IF Truthy(Get(params, "departure_date")) THEN Get(params, "departure_date")
    ELSE IF Truthy(Get(params, "checkin_date")) THEN Get(params, "checkin_date")
    ELSE Get(params, "destination")

HasKey(sr, k) == \E j \in 1..Len(sr) : sr[j].key = k

\* search_results[date_key].append(result), creating the list when needed
AddToGroup(sr, k, r) ==
    IF HasKey(sr, k)
    THEN [j \in 1..Len(sr) |-> IF sr[j].key = k
                                THEN [sr[j] EXCEPT !.recs = Append(@, r)]
                                ELSE sr[j]]
    ELSE Append(sr, [key |-> k, recs |-> <<r>>])

RECURSIVE GroupFrom(_, _, _)
GroupFrom(hist, i, acc) ==
    IF i > Len(hist) THEN acc
    ELSE GroupFrom(hist, i + 1,
                   IF "result" \in DOMAIN hist[i]
                   THEN AddToGroup(acc, DateKey(hist[i].params), hist[i])
                   ELSE acc)

KeptResults == search_results

\* current_state.search_results = {}
FreshResults == <<>>

ExecutePlan(Outcomes) ==
    /\ pc \in {"planned", "executed"}
    /\ \E outs \in [1..Len(current_plan) -> Outcomes] :
          /\ \A i \in 1..Len(current_plan) :
                IF Resolves(current_plan[i])
                THEN Possible(current_plan[i], outs[i])
                ELSE outs[i] = ThrowsOutcome
          /\ LET execution_results == RunFrom(current_plan, outs, 1) IN
             /\ execution_history' = execution_results
             /\ search_results' = GroupFrom(execution_results, 1, FreshResults)
             /\ last_call' = [NoCall EXCEPT !.op = "execute_plan",
                                            !.invoked = InvokedFrom(current_plan, 1)]
    /\ pc' = "executed"
    /\ UNCHANGED <<current_plan, final_itinerary, global_score, constraints, final_alias>>

-----------------------------------------------------------------------------
(* Plan execution on any plan of tool-call strings *)

D1 == DateTxt(2025, 9, 1)

D1out == DateTxt(2025, 9, 5)

Offer(n, pk, pv) == [id |-> n, price |-> [kind |-> pk, v |-> pv]]

ExecSteps ==
    { FlightCall("search_flights", Arg(TRUE, D1), Arg(TRUE, D1out)),
      FlightCall("search_flights", Arg(TRUE, EmptyTxt), Absent),
      FlightCall("my_search_flights", Arg(TRUE, D1), Arg(TRUE, D1out)),
      HotelCall("search_hotels", Arg(TRUE, Txt("Tokyo")), Arg(TRUE, D1), Arg(TRUE, D1out)),
      HotelCall("search_hotels", Arg(TRUE, Txt("Tokyo")), Arg(TRUE, EmptyTxt), Arg(TRUE, D1out)),
      AttractionCall("search_attractions", Arg(TRUE, Txt("Tokyo")), Arg(TRUE, Txt("anime"))),
      AttractionCall("search_attractions", Arg(TRUE, EmptyTxt), Arg(TRUE, Txt("anime"))) }

ExecOutcomes ==
    { ListOutcome(<<Offer(1, "num", 1)>>), PayloadOutcome, ThrowsOutcome, UndecodableOutcome }

EmptyState ==
    /\ current_plan = <<>>
    /\ execution_history = <<>>
    /\ search_results = <<>>
    /\ final_itinerary = <<>>
    /\ global_score = <<>>
    /\ constraints = <<>>
    /\ final_alias = 0
    /\ last_call = NoCall

InitExec ==
    /\ current_plan \in SeqsUpTo(ExecSteps, MaxPlan)
    /\ execution_history = <<>>
    /\ search_results = <<>>
    /\ final_itinerary = <<>>
    /\ global_score = <<>>
    /\ constraints = <<>>
    /\ final_alias = 0
    /\ last_call = NoCall
    /\ pc = "planned"

ExecutePlanAny == ExecutePlan(ExecOutcomes)

NextExec == ExecutePlanAny

SpecExec == InitExec /\ [][NextExec]_vars

-----------------------------------------------------------------------------
(* find_best_option *)

\* total_hotel_cost = cheapest_hotel_price_per_night * 4
Nights == 4

\* re.match(r'\d{4}-\d{2}-\d{2}', date_key)
IsDateKey(k) == k.kind = "date"

\* next((r for r in results if r["tool"] == tool and "result" in r), None): its index, 0 for None
FirstRecord(recs, tool) ==
    IF \E i \in 1..Len(recs) : recs[i].tool = tool /\ "result" \in DOMAIN recs[i]
    THEN CHOOSE i \in 1..Len(recs) :
            /\ recs[i].tool = tool /\ "result" \in DOMAIN recs[i]
            /\ \A j \in 1..(i - 1) : ~(recs[j].tool = tool /\ "result" \in DOMAIN recs[j])
    ELSE 0

\* [f.get("price") for f in result if f.get("price") is not None]
ValidFlightPrices(offers) == SelectSeq(offers, LAMBDA f : f.price.kind # "none")

\* [h.get("price") for h in result if isinstance(h.get("price"), (int, float))]
ValidHotelPrices(offers) == SelectSeq(offers, LAMBDA h : h.price.kind = "num")

\* min over numbers
MinPrice(offers) ==
    CHOOSE p \in {offers[i].price.v : i \in 1..Len(offers)} :
        \A i \in 1..Len(offers) : p <= offers[i].price.v

FirstOffer(offers, price) == offers[1]

\* next(o for o in result if o.get("price") == price)
FirstPriced(offers, price) ==
    offers[CHOOSE i \in 1..Len(offers) :
              /\ offers[i].price.kind = "num" /\ offers[i].price.v = price
              /\ \A j \in 1..(i - 1) : ~(offers[j].price.kind = "num" /\ offers[j].price.v = price)]

\* A result the price extraction can use: a non-empty list. An empty result is
\* skipped by `continue`; iterating an error payload yields its keys, f.get
\* raises AttributeError and the except clause skips the date.
UsableList(result) == result.kind = "list" /\ result.offers # <<>>

TotalCostOneNight(flight_price, hotel_price) == flight_price + hotel_price

\* total_cost = cheapest_flight_price + total_hotel_cost
TotalCost(flight_price, hotel_price) == flight_price + hotel_price * Nights

\* the body of the loop for one date key: <<>> when the date is skipped,
\* else the one analysis appended to cost_analysis
Analysis(key, recs) ==
    LET fi == FirstRecord(recs, "search_flights")
        hi == FirstRecord(recs, "search_hotels")
    IN  IF fi = 0 \/ hi = 0 THEN <<>>
        ELSE IF ~UsableList(recs[fi].result) \/ ~UsableList(recs[hi].result) THEN <<>>
        ELSE
        LET valid_prices == ValidFlightPrices(recs[fi].result.offers)
            valid_hotel_prices == ValidHotelPrices(recs[hi].result.offers)
        IN  IF valid_prices = <<>> \/ valid_hotel_prices = <<>> THEN <<>>
            \* a price that is text: min() or the sum raises TypeError, caught
            ELSE IF \E i \in 1..Len(valid_prices) : valid_prices[i].price.kind # "num" THEN <<>>
            \* hotel_result['params']['checkout_date'] raises KeyError, caught
            ELSE IF "checkout_date" \notin DOMAIN recs[hi].params THEN <<>>
            ELSE
            LET cheapest_flight_price == MinPrice(valid_prices)
                cheapest_hotel_price_per_night == MinPrice(valid_hotel_prices)
            IN  << [date_range |-> [from |-> key, to |-> recs[hi].params["checkout_date"]],
                    flight |-> FirstPriced(recs[fi].result.offers, cheapest_flight_price),
                    hotel |-> FirstPriced(recs[hi].result.offers, cheapest_hotel_price_per_night),
                    total_cost |-> TotalCost(cheapest_flight_price, cheapest_hotel_price_per_night),
                    cost_breakdown |-> [flight |-> cheapest_flight_price,
                                        hotel |-> cheapest_hotel_price_per_night,
                                        nights |-> Nights]] >>

\* cost_analysis after the loop over results_by_date.items()
RECURSIVE CostAnalysisFrom(_, _)
CostAnalysisFrom(sr, j) ==
    IF j > Len(sr) THEN <<>>
    ELSE (IF IsDateKey(sr[j].key) THEN Analysis(sr[j].key, sr[j].recs) ELSE <<>>)
         \o CostAnalysisFrom(sr, j + 1)

LastCheaper(total_cost, min_total_cost) == total_cost <= min_total_cost

\* if total_cost < min_total_cost
Cheaper(total_cost, min_total_cost) == total_cost < min_total_cost

\* cheapest_option after the loop: its index in cost_analysis, 0 for None
RECURSIVE CheapestFrom(_, _, _)
CheapestFrom(entries, i, best) ==
    IF i > Len(entries) THEN best
    ELSE CheapestFrom(entries, i + 1,
                      IF best = 0 \/ Cheaper(entries[i].total_cost, entries[best].total_cost)
                      THEN i ELSE best)

AccumulatedAnalysis(cost_analysis, best) ==
    (IF "cost_analysis" \in DOMAIN constraints THEN constraints["cost_analysis"] ELSE <<>>)
    \o cost_analysis

\* what is stored in constraints["cost_analysis"]
StoredAnalysis(cost_analysis, best) == cost_analysis

SetConstraint(c, key, value) ==
    [k \in DOMAIN c \cup {key} |-> IF k = key THEN value ELSE c[k]]

\* re.match on a None key raises TypeError outside the try block
SelectionRaises(sr) == \E j \in 1..Len(sr) : sr[j].key.kind = "pynone"

NoCombinationPriced == [error |-> "no valid flight and hotel combination", total_cost |-> 0]

NoCombination == [error |-> "no valid flight and hotel combination"]

FindBestOption ==
    /\ pc \in {"executed", "selected"}
    /\ IF SelectionRaises(search_results)
       THEN /\ last_call' = [NoCall EXCEPT !.op = "find_best_option", !.raised = TRUE]
            /\ pc' = "failed"
            /\ UNCHANGED <<final_itinerary, global_score, constraints, final_alias>>
       ELSE LET cost_analysis == CostAnalysisFrom(search_results, 1)
                best == CheapestFrom(cost_analysis, 1, 0)
            IN  /\ last_call' = [NoCall EXCEPT !.op = "find_best_option"]
                /\ pc' = "selected"
                /\ IF best # 0
                   THEN /\ final_itinerary' = cost_analysis[best]
                        /\ global_score' = <<cost_analysis[best].total_cost>>
                        /\ constraints' = SetConstraint(constraints, "cost_analysis",
                                                        StoredAnalysis(cost_analysis, best))
                        /\ final_alias' = best
                   ELSE /\ final_itinerary' = NoCombination
                        /\ final_alias' = 0
                        /\ UNCHANGED <<global_score, constraints>>
    /\ UNCHANGED <<current_plan, execution_history, search_results>>

-----------------------------------------------------------------------------
(* optimize_itinerary *)

\* anime_spots[:5], food_spots[:5]
HighlightLimit == 5

\* A narrative-oracle response is a sequence of tokens:
\*   "{" and "}"  the brace characters
\*   "m"          a member such as "title": "X" (brace-free text)
\*   "tc"         the member "total_cost": 99999
\*   "w"          prose that is no JSON
Tokens == {"{", "}", "m", "tc", "w"}

FirstOpen(resp) ==
    IF \E i \in 1..Len(resp) : resp[i] = "{"
    THEN CHOOSE i \in 1..Len(resp) : resp[i] = "{" /\ \A j \in 1..(i - 1) : resp[j] # "{"
    ELSE 0

LastClose(resp) ==
    IF \E i \in 1..Len(resp) : resp[i] = "}"
    THEN CHOOSE i \in 1..Len(resp) : resp[i] = "}" /\ \A j \in (i + 1)..Len(resp) : resp[j] # "}"
    ELSE 0

FirstObjectEnd(resp) ==
    LET a == FirstOpen(resp) IN
    IF a # 0 /\ \E i \in (a + 1)..Len(resp) : resp[i] = "}"
    THEN CHOOSE i \in (a + 1)..Len(resp) :
            resp[i] = "}" /\ \A j \in (a + 1)..(i - 1) : resp[j] # "}"
    ELSE 0

\* re.search(r'\{.*\}', response_str, re.DOTALL): the match, <<>> when there is none
JsonMatch(resp) ==
    IF FirstOpen(resp) # 0 /\ LastClose(resp) > FirstOpen(resp)
    THEN SubSeq(resp, FirstOpen(resp), LastClose(resp))
    ELSE <<>>

\* nesting depth after the first i tokens
RECURSIVE Depth(_, _)
Depth(text, i) ==
    IF i = 0 THEN 0
    ELSE Depth(text, i - 1) + (IF text[i] = "{" THEN 1 ELSE IF text[i] = "}" THEN -1 ELSE 0)

\* json.loads accepts the text: it is one object and nothing else
Decodable(text) ==
    /\ Len(text) >= 2
    /\ text[1] = "{"
    /\ \A i \in 1..(Len(text) - 1) : Depth(text, i) >= 1
    /\ Depth(text, Len(text)) = 0
    /\ \A i \in 1..Len(text) : text[i] # "w"

\* json.loads: the members of the object in document order, each with the
\* depth of the object that holds it; a nested object is a member "object"
RECURSIVE LoadsFrom(_, _)
LoadsFrom(text, i) ==
    IF i >= Len(text) THEN <<>>
    ELSE (IF text[i] = "}" THEN <<>>
          ELSE <<[name |-> IF text[i] = "{" THEN "object" ELSE text[i],
                  depth |-> Depth(text, i - 1)]>>)
         \o LoadsFrom(text, i + 1)

Loads(text) == [object |-> LoadsFrom(text, 2)]

\* a spot taken from an error payload: extend() on a dict adds its key, a str
PayloadKey == [id |-> 0, price |-> [kind |-> "dictkey", v |-> 0]]

\* list.extend(res["result"])
Extended(result) == IF result.kind = "list" THEN result.offers ELSE <<PayloadKey>>

\* search_results.get("Tokyo", [])
AttractionsResults(sr) ==
    IF HasKey(sr, Txt("Tokyo"))
    THEN sr[CHOOSE j \in 1..Len(sr) : sr[j].key = Txt("Tokyo")].recs
    ELSE <<>>

RECURSIVE SpotsFrom(_, _, _)
SpotsFrom(recs, interest, i) ==
    IF i > Len(recs) THEN <<>>
    ELSE (IF /\ recs[i].tool = "search_attractions"
             /\ "result" \in DOMAIN recs[i]
             /\ Get(recs[i].params, "interest") = Txt(interest)
          THEN Extended(recs[i].result) ELSE <<>>)
         \o SpotsFrom(recs, interest, i + 1)

AllSpots(spots) == spots

\* spots[:5]
Highlights(spots) ==
    SubSeq(spots, 1, IF Len(spots) < HighlightLimit THEN Len(spots) ELSE HighlightLimit)

\* spot.get('title') on a str raises AttributeError
PayloadRaises(spots) == \E i \in 1..Len(spots) : spots[i] = PayloadKey

SetField(dict, key, value) ==
    [k \in DOMAIN dict \cup {key} |-> IF k = key THEN value ELSE dict[k]]

\* the dict final_itinerary is also an element of constraints["cost_analysis"]
\* when find_best_option stored it there: a write to one is a write to both
AliasedWrite(c, alias, key, value) ==
    IF alias = 0 \/ "cost_analysis" \notin DOMAIN c THEN c
    ELSE [c EXCEPT !["cost_analysis"] =
             [n \in 1..Len(@) |-> IF n = alias THEN SetField(@[n], key, value) ELSE @[n]]]

MergedPlan(base, creative_itinerary) ==
    IF \E n \in 1..Len(creative_itinerary.object) : creative_itinerary.object[n].name = "tc"
    THEN SetField(SetField(base, "creative_plan", creative_itinerary), "total_cost", 99999)
    ELSE SetField(base, "creative_plan", creative_itinerary)

\* current_state.final_itinerary["creative_plan"] = creative_itinerary
WithCreativePlan(base, creative_itinerary) ==
    SetField(base, "creative_plan", creative_itinerary)

FirstObjectOnly(resp) ==
    IF FirstObjectEnd(resp) # 0 THEN SubSeq(resp, FirstOpen(resp), FirstObjectEnd(resp)) ELSE <<>>

\* response_str = json_match.group(0)
Extracted(resp) == JsonMatch(resp)

\* dict.get("total_cost")
ScoreOf(dict) == IF "total_cost" \in DOMAIN dict THEN <<dict["total_cost"]>> ELSE <<>>

OracleRaises == <<"raise">>

NeverFailed(itinerary) == FALSE

\* if "error" in current_state.final_itinerary
SelectionFailed(itinerary) == "error" \in DOMAIN itinerary

ReplacedByError(base, message) == [error |-> message]

\* current_state.final_itinerary["error_message"] = message
WithErrorMessage(base, message) == SetField(base, "error_message", message)

OptimizeItinerary(Responses) ==
    /\ pc \in {"selected", "composed"}
    /\ IF SelectionFailed(final_itinerary)
       THEN /\ last_call' = [NoCall EXCEPT !.op = "optimize_itinerary"]
            /\ pc' = "composed"
            /\ UNCHANGED <<final_itinerary, global_score, constraints>>
       ELSE
       LET attractions_results == AttractionsResults(search_results)
           anime_spots == Highlights(SpotsFrom(attractions_results, "anime", 1))
           food_spots == Highlights(SpotsFrom(attractions_results, "food", 1))
           called == [NoCall EXCEPT !.op = "optimize_itinerary"]
       IN  IF PayloadRaises(anime_spots) \/ PayloadRaises(food_spots)
           THEN /\ last_call' = [called EXCEPT !.raised = TRUE]
                /\ pc' = "failed"
                /\ UNCHANGED <<final_itinerary, global_score, constraints>>
           ELSE \E response_str \in Responses \cup {OracleRaises} :
                LET narrated == [called EXCEPT !.narrated = TRUE,
                                               !.response = response_str,
                                               !.anime_spots = anime_spots,
                                               !.food_spots = food_spots]
                IN  IF response_str = OracleRaises
                    THEN /\ last_call' = [narrated EXCEPT !.raised = TRUE]
                         /\ pc' = "failed"
                         /\ UNCHANGED <<final_itinerary, global_score, constraints>>
                    ELSE /\ last_call' = narrated
                         /\ pc' = "composed"
                         /\ IF JsonMatch(response_str) = <<>>
                            THEN /\ final_itinerary' =
                                       WithErrorMessage(final_itinerary, "no JSON block")
                                 /\ constraints' = AliasedWrite(constraints, final_alias,
                                                                "error_message", "no JSON block")
                                 /\ UNCHANGED global_score
                            ELSE IF Decodable(Extracted(response_str))
                            THEN /\ final_itinerary' =
                                       WithCreativePlan(final_itinerary, Loads(Extracted(response_str)))
                                 /\ constraints' = AliasedWrite(constraints, final_alias,
                                                                "creative_plan",
                                                                Loads(Extracted(response_str)))
                                 /\ global_score' = ScoreOf(final_itinerary')
                            ELSE /\ final_itinerary' =
                                       WithErrorMessage(final_itinerary, "cannot parse")
                                 /\ constraints' = AliasedWrite(constraints, final_alias,
                                                                "error_message", "cannot parse")
                                 /\ UNCHANGED global_score
    /\ UNCHANGED <<current_plan, execution_history, search_results, final_alias>>

-----------------------------------------------------------------------------
(* Selection and composition on the plans the planning prompt asks for:     *)
(* one flight search and one hotel search per date range                    *)

SelDate(n) == DateTxt(2025, 9, 5 * n - 4)

\* the first range lasts 4 nights, the later ones fewer
SelOut(n) == DateTxt(2025, 9, 4 * n + 1)

SelFlight(n) == FlightCall("search_flights", Arg(TRUE, SelDate(n)), Arg(TRUE, SelOut(n)))

SelHotel(n) ==
    HotelCall("search_hotels", Arg(TRUE, Txt("Tokyo")), Arg(TRUE, SelDate(n)), Arg(TRUE, SelOut(n)))

SelAttraction(interest) ==
    AttractionCall("search_attractions", Arg(TRUE, Txt("Tokyo")), Arg(TRUE, Txt(interest)))

RECURSIVE DatePlan(_)
DatePlan(n) == IF n = 0 THEN <<>> ELSE DatePlan(n - 1) \o <<SelFlight(n), SelHotel(n)>>

SelPlans ==
    {DatePlan(n) : n \in 1..MaxDates}
    \cup { <<SelFlight(1)>> \o DatePlan(1),
           DatePlan(1) \o <<SelHotel(1)>>,
           DatePlan(1) \o <<SelAttraction("anime"), SelAttraction("food")>>,
           <<FlightCall("search_flights", Arg(TRUE, EmptyTxt), Absent)>> \o DatePlan(1) }

\* The results find_best_option is written for: its price filters expect
\* offers without a price and with a textual price (src/main.py:403, 420)
SelOutcomes ==
    { ListOutcome(<<>>),
      ListOutcome(<<Offer(1, "num", 3), Offer(2, "num", 1), Offer(3, "num", 1)>>),
      ListOutcome(<<Offer(1, "none", 0), Offer(2, "num", 2)>>),
      ListOutcome(<<Offer(1, "str", 0), Offer(2, "num", 1)>>),
      PayloadOutcome,
      ThrowsOutcome }

SelResponses == { <<"w", "{", "m", "}", "w">>, <<"{", "tc", "}">>, <<"w">>, <<"{", "w", "}">> }

InitSelect ==
    /\ current_plan \in SelPlans
    /\ execution_history = <<>>
    /\ search_results = <<>>
    /\ final_itinerary = <<>>
    /\ global_score = <<>>
    /\ constraints = <<>>
    /\ final_alias = 0
    /\ last_call = NoCall
    /\ pc = "planned"

ExecutePlanOnce == pc = "planned" /\ ExecutePlan(SelOutcomes)

OptimizeItinerarySel == OptimizeItinerary(SelResponses)

NextSelect == ExecutePlanOnce \/ FindBestOption \/ OptimizeItinerarySel

SpecSelect == InitSelect /\ [][NextSelect]_vars

-----------------------------------------------------------------------------
(* Composition on every oracle response of up to MaxResp tokens *)

ComposeOutcomes ==
    { ListOutcome(<<>>), ListOutcome(<<Offer(1, "num", 3), Offer(2, "num", 1)>>) }

InitCompose ==
    /\ current_plan = DatePlan(1)
    /\ execution_history = <<>>
    /\ search_results = <<>>
    /\ final_itinerary = <<>>
    /\ global_score = <<>>
    /\ constraints = <<>>
    /\ final_alias = 0
    /\ last_call = NoCall
    /\ pc = "planned"

ExecutePlanCompose == pc = "planned" /\ ExecutePlan(ComposeOutcomes)

OptimizeItineraryOnce == pc = "selected" /\ OptimizeItinerary(SeqsUpTo(Tokens, MaxResp))

NextCompose == ExecutePlanCompose \/ FindBestOption \/ OptimizeItineraryOnce

SpecCompose == InitCompose /\ [][NextCompose]_vars

-----------------------------------------------------------------------------
(* Composition on a plan with several attraction searches of one interest *)

HighlightPlan ==
    DatePlan(1) \o <<SelAttraction("anime"), SelAttraction("food"), SelAttraction("anime")>>

\* search_attractions returns up to 5 results
HighlightOutcomes ==
    { ListOutcome(<<Offer(1, "num", 3), Offer(2, "num", 1)>>),
      ListOutcome([i \in 1..3 |-> Offer(10 + i, "none", 0)]),
      ListOutcome([i \in 1..5 |-> Offer(20 + i, "none", 0)]),
      ListOutcome(<<>>) }

InitHighlights ==
    /\ current_plan = HighlightPlan
    /\ execution_history = <<>>
    /\ search_results = <<>>
    /\ final_itinerary = <<>>
    /\ global_score = <<>>
    /\ constraints = <<>>
    /\ final_alias = 0
    /\ last_call = NoCall
    /\ pc = "planned"

ExecutePlanHighlights == pc = "planned" /\ ExecutePlan(HighlightOutcomes)

NextHighlights == ExecutePlanHighlights \/ FindBestOption \/ OptimizeItinerarySel

SpecHighlights == InitHighlights /\ [][NextHighlights]_vars

-----------------------------------------------------------------------------
(* Planning on proposals of up to MaxProposal tool-call strings *)

FirstDateForms ==
    { Absent,
      Arg(TRUE, DateTxt(2025, 9, 1)),
      Arg(TRUE, DateTxt(2025, 13, 1)),
      Arg(TRUE, DateTxt(2025, 2, 29)),
      Arg(FALSE, DateTxt(2025, 9, 1)) }

SecondDateForms ==
    { Absent,
      Arg(TRUE, DateTxt(2025, 9, 5)),
      Arg(TRUE, DateTxt(2024, 2, 29)),
      Arg(TRUE, DateTxt(2025, 4, 31)),
      Arg(TRUE, NoneTxt),
      Arg(FALSE, NoneTxt) }

PlanSteps ==
    {FlightCall("search_flights", a, b) : a \in FirstDateForms, b \in SecondDateForms}
    \cup {HotelCall("search_hotels", Arg(TRUE, Txt("Tokyo")), a, b) :
             a \in FirstDateForms, b \in SecondDateForms}
    \cup { FlightCall("my_search_flights", Arg(TRUE, DateTxt(2025, 9, 1)), Absent),
           AttractionCall("search_attractions", Arg(TRUE, Txt("Tokyo")), Arg(TRUE, Txt("anime"))),
           AttractionCall("search_attractions", Arg(TRUE, Txt("Tokyo")),
                          Arg(TRUE, Txt("search_hotels"))),
           Call("book_train", <<>>) }

ProposedLists ==
    {[i \in DOMAIN steps |-> Element(steps[i])] : steps \in SeqsUpTo(PlanSteps, MaxProposal)}

PlanResponses ==
    {OracleResponse("none", "object", "list", steps) : steps \in ProposedLists}
    \cup { OracleResponse("json", "object", "list", <<Element(Call("book_train", <<>>))>>),
           OracleResponse("plain", "object", "list", <<Element(Call("book_train", <<>>))>>),
           OracleResponse("none", "invalid", "absent", <<>>),
           OracleResponse("none", "scalar", "absent", <<>>),
           OracleResponse("none", "object", "absent", <<>>),
           OracleResponse("none", "object", "null", <<>>),
           OracleResponse("none", "object", "list", <<NumberElement>>) }

InitPlan == EmptyState /\ pc = "new"

\* the plan does not depend on the state the method is called on: one call
GenerateInitialPlanAny == pc = "new" /\ GenerateInitialPlan(PlanResponses)

NextPlan == GenerateInitialPlanAny

SpecPlan == InitPlan /\ [][NextPlan]_vars

-----------------------------------------------------------------------------
(* The provider adapters of src/tools, each on one provider response *)

\* [:5] of the three adapters
AdapterLimit == 5

\* the price field of a provider item: a number, or missing
PriceForms == { [kind |-> "num", v |-> 1], [kind |-> "num", v |-> 2],
                [kind |-> "none", v |-> 0] }

\* What GoogleSearch(params).get_dict() does:
\*   data: a dict with the result key, items holding each item's price
\*   no_data: a dict without the result key
\*   api_error: a dict with an "error" key
\*   network_error: requests.RequestException is raised
\*   bad_json: json.JSONDecodeError is raised
\*   other_exception: another exception is raised
ProviderResponse(kind, items) == [kind |-> kind, items |-> items]

ProviderResponses ==
    {ProviderResponse("data", items) : items \in SeqsUpTo(PriceForms, MaxItems)}
    \cup {ProviderResponse(k, <<>>) :
             k \in {"no_data", "api_error", "network_error", "bad_json", "other_exception"}}

First5(items) ==
    SubSeq(items, 1, IF Len(items) < AdapterLimit THEN Len(items) ELSE AdapterLimit)

Numbered(items) == [i \in 1..Len(items) |-> [id |-> i, price |-> items[i]]]

\* search_flights: only RequestException and JSONDecodeError are caught;
\* flight.get("price")*30 raises TypeError on a missing price
SearchFlights(response) ==
    CASE response.kind \in {"api_error", "no_data", "network_error", "bad_json"} -> PayloadOutcome
      [] response.kind = "other_exception" -> ThrowsOutcome
      [] OTHER ->
           LET flights_to_process == First5(Numbered(response.items)) IN
           IF \E i \in 1..Len(flights_to_process) : flights_to_process[i].price.kind = "none"
           THEN ThrowsOutcome
           ELSE ListOutcome([i \in 1..Len(flights_to_process) |->
                    [flights_to_process[i] EXCEPT !.price.v = @ * 30]])

\* get_sort_key with sort_by "price", sort_order "asc": a missing rate is inf
CheaperRate(a, b) == a.kind = "num" /\ (b.kind # "num" \/ a.v < b.v)

RECURSIVE InsertByRate(_, _)
InsertByRate(prop, sorted) ==
    IF sorted = <<>> THEN <<prop>>
    ELSE IF CheaperRate(prop.price, Head(sorted).price) THEN <<prop>> \o sorted
    ELSE <<Head(sorted)>> \o InsertByRate(prop, Tail(sorted))

\* sorted(properties, key=get_sort_key): stable
RECURSIVE SortedByRate(_, _)
SortedByRate(properties, n) ==
    IF n = 0 THEN <<>> ELSE InsertByRate(properties[n], SortedByRate(properties, n - 1))

\* search_hotels: every exception is caught; a missing rate is shown as "-"
SearchHotels(response) ==
    IF response.kind # "data" \/ response.items = <<>> THEN PayloadOutcome
    ELSE LET sorted_properties ==
                 First5(SortedByRate(Numbered(response.items), Len(response.items)))
         IN  ListOutcome([i \in 1..Len(sorted_properties) |->
                 IF sorted_properties[i].price.kind = "none"
                 THEN [sorted_properties[i] EXCEPT !.price = [kind |-> "str", v |-> 0]]
                 ELSE sorted_properties[i]])

\* search_attractions: every exception is caught; the results carry no price
SearchAttractions(response) ==
    IF response.kind # "data" \/ response.items = <<>> THEN PayloadOutcome
    ELSE LET organic_results == First5(Numbered(response.items)) IN
         ListOutcome([i \in 1..Len(organic_results) |->
             [organic_results[i] EXCEPT !.price = [kind |-> "none", v |-> 0]]])

Adapter(tool, response) ==
    CASE tool = "search_flights" -> SearchFlights(response)
      [] tool = "search_hotels" -> SearchHotels(response)
      [] OTHER -> SearchAttractions(response)

InitAdapters == EmptyState /\ pc = "adapter"

\* one call of one adapter, past its argument checks, on one provider response
InvokeAdapter ==
    /\ pc = "adapter"
    /\ \E tool \in ToolNames, response \in ProviderResponses :
          last_call' = [NoCall EXCEPT !.op = tool,
                                       !.raised = (Adapter(tool, response).kind = "throws"),
                                       !.response = <<response>>,
                                       !.invoked = <<Adapter(tool, response)>>]
    /\ pc' = "returned"
    /\ UNCHANGED <<current_plan, execution_history, search_results, final_itinerary,
                   global_score, constraints, final_alias>>

NextAdapters == InvokeAdapter

SpecAdapters == InitAdapters /\ [][NextAdapters]_vars

-----------------------------------------------------------------------------
(* The whole pipeline, as main.py and app.py run it: generate_initial_plan, *)
(* execute_plan, find_best_option, optimize_itinerary                       *)

PipelineProposals ==
    { <<>>,
      DatePlan(1),
      DatePlan(1) \o <<SelAttraction("anime")>>,
      <<FlightCall("my_search_flights", Arg(TRUE, SelDate(1)), Absent)>> \o DatePlan(1),
      <<FlightCall("search_flights", Arg(TRUE, DateTxt(2025, 13, 1)), Absent)>> \o DatePlan(1),
      <<SelAttraction("anime"), SelAttraction("food")>> }

PipelineResponses ==
    {OracleResponse("none", "object", "list", [i \in DOMAIN steps |-> Element(steps[i])]) :
        steps \in PipelineProposals}
    \cup { OracleResponse("none", "invalid", "absent", <<>>),
           OracleResponse("plain", "object", "list",
                          [i \in 1..2 |-> Element(DatePlan(1)[i])]),
           OracleResponse("json", "object", "list",
                          [i \in 1..2 |-> Element(DatePlan(1)[i])]),
           OracleResponse("none", "scalar", "absent", <<>>) }

PipelineOutcomes ==
    { ListOutcome(<<Offer(1, "num", 3), Offer(2, "num", 1)>>), ListOutcome(<<>>),
      PayloadOutcome, ThrowsOutcome }

Init == EmptyState /\ pc = "new"

Plan == pc = "new" /\ GenerateInitialPlan(PipelineResponses)

Execute == pc = "planned" /\ ExecutePlan(PipelineOutcomes)

Select == pc = "executed" /\ FindBestOption

Compose == pc = "selected" /\ OptimizeItinerary(SelResponses)

Next == Plan \/ Execute \/ Select \/ Compose

Spec == Init /\ [][Next]_vars

-----------------------------------------------------------------------------
(* Planning, execution and selection on proposals whose steps carry, lack   *)
(* or leave empty the arguments the grouping key is taken from              *)

KeySteps ==
    {FlightCall("search_flights", dep, Absent) :
        dep \in {Absent, Arg(TRUE, SelDate(1)), Arg(TRUE, EmptyTxt), Arg(FALSE, NoneTxt)}}
    \cup { SelHotel(1),
           HotelCall("search_hotels", Arg(TRUE, Txt("Tokyo")), Absent, Absent),
           HotelCall("search_hotels", Arg(TRUE, Txt("Tokyo")), Arg(TRUE, EmptyTxt),
                     Arg(TRUE, SelOut(1))) }
    \cup {AttractionCall("search_attractions", dest, Arg(TRUE, Txt("anime"))) :
             dest \in {Absent, Arg(TRUE, Txt("Tokyo")), Arg(TRUE, EmptyTxt), Arg(FALSE, NoneTxt)}}

KeyProposals ==
    SeqsUpTo(KeySteps, MaxProposal)
    \cup { DatePlan(1) \o <<SelAttraction("anime"),
                             AttractionCall("search_attractions", Arg(TRUE, EmptyTxt),
                                            Arg(TRUE, Txt("anime")))>> }

KeyResponses ==
    {OracleResponse("none", "object", "list", [i \in DOMAIN steps |-> Element(steps[i])]) :
        steps \in KeyProposals}

PlanKeys == pc = "new" /\ GenerateInitialPlan(KeyResponses)

NextKeys == PlanKeys \/ Execute \/ Select

SpecKeys == Init /\ [][NextKeys]_vars

-----------------------------------------------------------------------------
(* normalize_dates of src/test.py, on one request text and one today        *)

\* What the two regular expressions find in the request text.
\*   month: "absent", "digits" (v is the number before 月), "cn" (a Chinese
\*          numeral of CN_MONTH_MAP, v its value) or "cn_unknown"
\*   len:   "absent", "days_nights" (v is the number before 夜) or "days"
\*          (v is the number before 天)
Query(month, mv, len, lv) == [month |-> month, mv |-> mv, len |-> len, lv |-> lv]

\* _parse_month: <<>> is None
ParseMonth(query) ==
    CASE query.month = "digits" -> IF 1 <= query.mv /\ query.mv <= 12 THEN <<query.mv>> ELSE <<>>
      [] query.month = "cn" -> <<query.mv>>
      [] OTHER -> <<>>

\* _extract_len_nights: <<>> is None
ExtractLenNights(query) ==
    CASE query.len = "days_nights" -> <<query.lv>>
      [] query.len = "days" ->
           LET d == IF query.lv < 1 THEN 1 ELSE query.lv
           IN  <<IF d - 1 < 1 THEN 1 ELSE d - 1>>
      [] OTHER -> <<>>

\* the while loop: d moves on while it is in the month and before today;
\* once it has left the month the first of the month is taken
RECURSIVE FirstFutureFrom(_, _, _, _)
FirstFutureFrom(year, month, d, today) ==
    IF d > DaysInMonth(year, month) THEN 1
    ELSE IF Later(today, DateTxt(year, month, d)) THEN FirstFutureFrom(year, month, d + 1, today)
    ELSE d

\* _first_future_day_in_month
FirstFutureDayInMonth(year, month, today) ==
    DateTxt(year, month, FirstFutureFrom(year, month, 1, today))

\* d + timedelta(days=1)
NextDay(t) ==
    IF t.d < DaysInMonth(t.y, t.m) THEN DateTxt(t.y, t.m, t.d + 1)
    ELSE IF t.m < 12 THEN DateTxt(t.y, t.m + 1, 1)
    ELSE DateTxt(t.y + 1, 1, 1)

\* checkin + timedelta(days=nights)
RECURSIVE AddDays(_, _)
AddDays(t, n) == IF n = 0 THEN t ELSE AddDays(NextDay(t), n - 1)

\* x or default: None and 0 are falsy
OrElse(x, default) == IF x = <<>> \/ x = <<0>> THEN default ELSE x[1]

NormalizeDates(query, today) ==
    LET month == OrElse(ParseMonth(query), today.m)
        year == today.y
        checkin == FirstFutureDayInMonth(year, month, today)
        nights == OrElse(ExtractLenNights(query), 4)
        checkout == AddDays(checkin, nights)
    IN  [depart_date |-> checkin, return_date |-> checkout,
         checkin_date |-> checkin, checkout_date |-> checkout]

Queries ==
    {Query(mk, mv, lk, lv) :
        mk \in {"digits"}, mv \in 0..13, lk \in {"absent", "days_nights", "days"}, lv \in {0, 1, 3}}
    \cup {Query("absent", 0, "days_nights", 4), Query("cn", 11, "absent", 0),
          Query("cn_unknown", 0, "days", 5)}

Todays ==
    {DateTxt(2025, m, d) : m \in {1, 2, 9, 12}, d \in {1, 15, 28}}
    \cup {DateTxt(2024, 2, 29), DateTxt(2025, 12, 31)}

InitDates == EmptyState /\ pc = "dates"

\* one call of normalize_dates
NormalizeDatesAny ==
    /\ pc = "dates"
    /\ \E query \in Queries, today \in Todays :
          last_call' = [NoCall EXCEPT !.op = "normalize_dates",
                                       !.response = <<[query |-> query, today |-> today]>>,
                                       !.invoked = <<NormalizeDates(query, today)>>]
    /\ pc' = "returned"
    /\ UNCHANGED <<current_plan, execution_history, search_results, final_itinerary,
                   global_score, constraints, final_alias>>

NextDates == NormalizeDatesAny

SpecDates == InitDates /\ [][NextDates]_vars

-----------------------------------------------------------------------------
(* Helpers of the properties *)

Count(r, seq) == Cardinality({i \in 1..Len(seq) : seq[i] = r})

RECURSIVE CountInGroups(_, _, _)
CountInGroups(r, sr, j) ==
    IF j > Len(sr) THEN 0 ELSE Count(r, sr[j].recs) + CountInGroups(r, sr, j + 1)

RECURSIVE IsSubseqFrom(_, _, _, _)
IsSubseqFrom(s, t, i, j) ==
    IF i > Len(s) THEN TRUE
    ELSE IF j > Len(t) THEN FALSE
    ELSE IF s[i] = t[j] THEN IsSubseqFrom(s, t, i + 1, j + 1)
    ELSE IsSubseqFrom(s, t, i, j + 1)

IsSubseq(s, t) == IsSubseqFrom(s, t, 1, 1)

Succeeded(r) == "result" \in DOMAIN r

NonEmptyArg(params, k) ==
    k \in DOMAIN params /\ params[k].kind \notin {"pynone", "empty"}

Executed == last_call.op = "execute_plan"

-----------------------------------------------------------------------------
(* Properties of execute_plan *)

\* C1 as stated: execute_plan returns without raising and execution_history
\* holds exactly one record per plan step, in plan order, also for a step
\* whose tool cannot be resolved.
C1_OneRecordPerStep ==
    Executed =>
        /\ ~last_call.raised
        /\ Len(execution_history) = Len(current_plan)
        /\ \A i \in 1..Len(execution_history) :
              /\ execution_history[i].tool = ToolName(current_plan[i])
              /\ execution_history[i].params = ParseParams(current_plan[i])

\* C1, what execute_plan does instead: it returns without raising and
\* execution_history holds exactly one record (a result or an error) per plan
\* step whose tool name is a registered adapter, in plan order; a step whose
\* tool cannot be resolved is skipped and contributes no record.
C1_OneRecordPerResolvableStep ==
    Executed =>
        LET resolvable == SelectSeq(current_plan, Resolves) IN
        /\ ~last_call.raised
        /\ Len(execution_history) = Len(resolvable)
        /\ \A i \in 1..Len(execution_history) :
              /\ execution_history[i].tool = ToolName(resolvable[i])
              /\ execution_history[i].params = ParseParams(resolvable[i])
              /\ ("result" \in DOMAIN execution_history[i])
                    # ("error" \in DOMAIN execution_history[i])

C1_Witness ==
    /\ Executed
    /\ \E i \in 1..Len(current_plan) : ~Resolves(current_plan[i])
    /\ \E i \in 1..Len(execution_history) : "error" \in DOMAIN execution_history[i]

\* C9: each successful record is grouped under the first non-empty of its
\* departure_date, checkin_date and destination arguments, and a successful
\* record with none of the three non-empty appears under no key of
\* search_results while it stays in execution_history.
C9_GroupedByFirstNonEmptyArgument ==
    Executed =>
        /\ \A j \in 1..Len(search_results) : \A n \in 1..Len(search_results[j].recs) :
              LET p == search_results[j].recs[n].params IN
              /\ NonEmptyArg(p, "departure_date") => search_results[j].key = p["departure_date"]
              /\ (~NonEmptyArg(p, "departure_date") /\ NonEmptyArg(p, "checkin_date"))
                    => search_results[j].key = p["checkin_date"]
              /\ (~NonEmptyArg(p, "departure_date") /\ ~NonEmptyArg(p, "checkin_date")
                    /\ NonEmptyArg(p, "destination"))
                    => search_results[j].key = p["destination"]
        /\ \A i \in 1..Len(execution_history) :
              LET r == execution_history[i] IN
              (/\ Succeeded(r)
               /\ ~NonEmptyArg(r.params, "departure_date")
               /\ ~NonEmptyArg(r.params, "checkin_date")
               /\ ~NonEmptyArg(r.params, "destination"))
                 => CountInGroups(r, search_results, 1) = 0

\* C10: after every execute_plan run the groups of search_results partition
\* the successful records of that run's execution_history: each successful
\* record is under exactly one key, no error record and no record of an
\* earlier run is under any key, and each group keeps the log order.
C10_GroupsPartitionSuccesses ==
    Executed =>
        /\ \A i, j \in 1..Len(search_results) :
              i # j => search_results[i].key # search_results[j].key
        /\ \A j \in 1..Len(search_results) :
              /\ IsSubseq(search_results[j].recs, execution_history)
              /\ \A n \in 1..Len(search_results[j].recs) :
                    /\ Succeeded(search_results[j].recs[n])
                    /\ CountInGroups(search_results[j].recs[n], search_results, 1)
                         = Count(search_results[j].recs[n], execution_history)
        /\ \A i \in 1..Len(execution_history) :
              CountInGroups(execution_history[i], search_results, 1)
                = IF Succeeded(execution_history[i])
                  THEN Count(execution_history[i], execution_history)
                  ELSE 0

C10_Witness ==
    /\ Executed
    /\ \E j \in 1..Len(search_results) :
          /\ Len(search_results[j].recs) = 2
          /\ search_results[j].recs[1] # search_results[j].recs[2]

\* C23: execute_plan invokes the adapter of each resolvable step exactly
\* once, in plan order, never again after a failure; a failing step does not
\* keep a later step from being invoked (each invocation leaves its record),
\* and a run makes no more invocations than the plan has steps.
C23_EachResolvableStepInvokedOnce ==
    Executed =>
        LET invoked == last_call.invoked IN
        /\ Len(invoked) <= Len(current_plan)
        /\ \A k \in 1..Len(invoked) :
              invoked[k] \in 1..Len(current_plan) /\ Resolves(current_plan[invoked[k]])
        /\ \A k1, k2 \in 1..Len(invoked) : k1 < k2 => invoked[k1] < invoked[k2]
        /\ \A i \in 1..Len(current_plan) :
              Resolves(current_plan[i]) => \E k \in 1..Len(invoked) : invoked[k] = i
        /\ Len(execution_history) = Len(invoked)
        /\ \A k \in 1..Len(invoked) :
              /\ execution_history[k].tool = ToolName(current_plan[invoked[k]])
              /\ execution_history[k].params = ParseParams(current_plan[invoked[k]])

C23_Witness ==
    /\ Executed
    /\ last_call.invoked = <<1, 2>>
    /\ "error" \in DOMAIN execution_history[1]
    /\ Succeeded(execution_history[2])

-----------------------------------------------------------------------------
(* Properties of find_best_option *)

SetMin(S) == CHOOSE x \in S : \A y \in S : x <= y

Selected == last_call.op = "find_best_option" /\ ~last_call.raised

HasTable == "cost_analysis" \in DOMAIN constraints

Group(key) == search_results[CHOOSE j \in 1..Len(search_results) : search_results[j].key = key]

\* the offers the selector reads for a tool under one key: those of the first
\* record of that tool that carries a result
OffersRead(recs, tool) ==
    LET with == {i \in 1..Len(recs) : recs[i].tool = tool /\ Succeeded(recs[i])}
    IN  IF with = {} \/ recs[SetMin(with)].result.kind # "list" THEN <<>>
        ELSE recs[SetMin(with)].result.offers

DefinedPrices(offers) ==
    {offers[i].price.v : i \in {n \in 1..Len(offers) : offers[n].price.kind # "none"}}

NumericPrices(offers) ==
    {offers[i].price.v : i \in {n \in 1..Len(offers) : offers[n].price.kind = "num"}}

\* a date key that yields a flight+hotel entry
Viable(g) ==
    /\ g.key.kind = "date"
    /\ DefinedPrices(OffersRead(g.recs, "search_flights")) # {}
    /\ \A i \in 1..Len(OffersRead(g.recs, "search_flights")) :
          OffersRead(g.recs, "search_flights")[i].price.kind \in {"none", "num"}
    /\ NumericPrices(OffersRead(g.recs, "search_hotels")) # {}

ViableGroups == SelectSeq(search_results, Viable)

\* C2: for every entry of the cost table, total_cost is the minimum defined
\* flight price of its date plus 4 times the minimum numeric hotel price of
\* its date, whatever the length of the date range.
C2_TotalIsFlightPlusFourNights ==
    HasTable =>
        \A n \in 1..Len(constraints["cost_analysis"]) :
            LET e == constraints["cost_analysis"][n] IN
            /\ HasKey(search_results, e.date_range.from)
            /\ e.total_cost =
                 SetMin(DefinedPrices(OffersRead(Group(e.date_range.from).recs, "search_flights")))
                 + 4 * SetMin(NumericPrices(OffersRead(Group(e.date_range.from).recs, "search_hotels")))

C2_Witness ==
    /\ HasTable
    /\ \E n \in 1..Len(constraints["cost_analysis"]) :
          LET e == constraints["cost_analysis"][n] IN
          /\ e.date_range.to.d - e.date_range.from.d # 4
          /\ e.cost_breakdown.hotel > 0

TableEntries == IF HasTable THEN constraints["cost_analysis"] ELSE <<>>

\* the offers that the successful list results of a tool hold under one key
OffersReturned(g, tool) ==
    UNION { {g.recs[i].result.offers[n] : n \in 1..Len(g.recs[i].result.offers)} :
              i \in {k \in 1..Len(g.recs) : /\ g.recs[k].tool = tool
                                             /\ Succeeded(g.recs[k])
                                             /\ g.recs[k].result.kind = "list"} }

\* C17: a date key is in the cost table only if its records hold a flight
\* offer with a defined price and a hotel offer with a numeric price (a key
\* whose flight or hotel search failed, returned an error payload, an empty
\* list or no usable price has no entry), and the flight and the hotel of
\* every entry are offers returned for that key, the flight with a defined
\* price and the hotel with a numeric price.
C17_OnlyPricedDatesInTable ==
    /\ \A n \in 1..Len(TableEntries) :
          LET e == TableEntries[n] IN
          /\ HasKey(search_results, e.date_range.from)
          /\ e.flight \in OffersReturned(Group(e.date_range.from), "search_flights")
          /\ e.flight.price.kind # "none"
          /\ e.hotel \in OffersReturned(Group(e.date_range.from), "search_hotels")
          /\ e.hotel.price.kind = "num"
    /\ \A j \in 1..Len(search_results) :
          LET g == search_results[j] IN
          (\/ \A o \in OffersReturned(g, "search_flights") : o.price.kind = "none"
           \/ \A o \in OffersReturned(g, "search_hotels") : o.price.kind # "num")
            => \A n \in 1..Len(TableEntries) : TableEntries[n].date_range.from # g.key

C17_Witness ==
    /\ Selected
    /\ Len(TableEntries) = 1
    /\ \E j \in 1..Len(search_results) :
          /\ search_results[j].key.kind = "date"
          /\ search_results[j].key # TableEntries[1].date_range.from
          /\ \E i \in 1..Len(search_results[j].recs) :
                /\ Succeeded(search_results[j].recs[i])
                /\ search_results[j].recs[i].result.kind = "error"

\* the records of a group that carry a list, error payloads left out
ListRecords(g) ==
    [key |-> g.key,
     recs |-> SelectSeq(g.recs, LAMBDA r : Succeeded(r) /\ r.result.kind = "list")]

\* C19 as stated: when a step of the plan fails or returns an error payload,
\* find_best_option and optimize_itinerary still return normally, and the
\* date keys whose searches succeeded get the outcome they would have without
\* the failing step: a key that is viable on its list results alone has its
\* cost-table entry.
C19_FailuresStayData ==
    /\ ~(/\ last_call.op \in {"find_best_option", "optimize_itinerary"}
          /\ last_call.raised
          /\ last_call.response # OracleRaises)
    /\ Selected =>
          \A j \in 1..Len(search_results) :
              Viable(ListRecords(search_results[j])) =>
                  \E n \in 1..Len(TableEntries) :
                      TableEntries[n].date_range.from = search_results[j].key

\* C21: a second find_best_option run on a state whose search_results are
\* unchanged since the first run leaves final_itinerary, global_score and the
\* cost table of constraints exactly as the first run left them, the entry
\* that wins a tie included.
C21_SecondRunIdentical ==
    [][ (last_call.op = "find_best_option" /\ last_call'.op = "find_best_option")
        => /\ search_results' = search_results
           /\ final_itinerary' = final_itinerary
           /\ global_score' = global_score
           /\ constraints' = constraints
           /\ last_call'.raised = last_call.raised ]_vars

\* the state a second run starts from and ends in: a tie between two entries
C21_Witness ==
    /\ Selected
    /\ pc = "selected"
    /\ Len(TableEntries) >= 2
    /\ TableEntries[1].total_cost = TableEntries[2].total_cost
    /\ final_itinerary = TableEntries[1]
    /\ global_score = <<TableEntries[1].total_cost>>
    /\ CostAnalysisFrom(search_results, 1) = TableEntries
    /\ CheapestFrom(TableEntries, 1, 0) = 1

\* the first record of a tool under one key whose result is a non-empty list
\* of offers: its index, 0 when there is none
FirstNonEmpty(recs, tool) ==
    LET with == {i \in 1..Len(recs) : /\ recs[i].tool = tool /\ Succeeded(recs[i])
                                       /\ recs[i].result.kind = "list"
                                       /\ recs[i].result.offers # <<>>}
    IN  IF with = {} THEN 0 ELSE SetMin(with)

\* every successful record of the tool holds a list, of numerically priced
\* offers when it is not empty
AllPriced(recs, tool) ==
    \A i \in 1..Len(recs) :
        (recs[i].tool = tool /\ Succeeded(recs[i])) =>
            /\ recs[i].result.kind = "list"
            /\ \A n \in 1..Len(recs[i].result.offers) :
                  recs[i].result.offers[n].price.kind = "num"

\* C22 as stated: for each date key the flight offers are those of the first
\* flight-search record with a non-empty result and the hotel offers those of
\* the first hotel-search record with a non-empty result; a record with an
\* empty result in front of them does not make the date skipped.
C22_FirstNonEmptyRecordUsed ==
    Selected =>
        \A j \in 1..Len(search_results) :
            LET g == search_results[j]
                fi == FirstNonEmpty(g.recs, "search_flights")
                hi == FirstNonEmpty(g.recs, "search_hotels")
            IN  (/\ g.key.kind = "date"
                 /\ fi # 0 /\ hi # 0
                 /\ AllPriced(g.recs, "search_flights")
                 /\ AllPriced(g.recs, "search_hotels"))
                => \E n \in 1..Len(TableEntries) :
                      /\ TableEntries[n].date_range.from = g.key
                      /\ \E k \in 1..Len(g.recs[fi].result.offers) :
                            TableEntries[n].flight = g.recs[fi].result.offers[k]
                      /\ \E k \in 1..Len(g.recs[hi].result.offers) :
                            TableEntries[n].hotel = g.recs[hi].result.offers[k]

StateVars == <<current_plan, execution_history, search_results, final_itinerary,
               global_score, constraints, final_alias>>

\* C4: when no date key yields a viable entry, find_best_option leaves a
\* final_itinerary holding only the error field, and the optimize_itinerary
\* call on it returns the state unchanged without invoking the narrative
\* oracle: no creative_plan and no error_message is added.
C4_ErrorShortCircuitsNarration ==
    [][ /\ (last_call'.op = "find_best_option" /\ ~last_call'.raised
              /\ Len(ViableGroups) = 0)
           => DOMAIN final_itinerary' = {"error"}
        /\ (last_call'.op = "optimize_itinerary" /\ "error" \in DOMAIN final_itinerary)
           => /\ StateVars' = StateVars
              /\ ~last_call'.narrated
              /\ ~last_call'.raised
              /\ DOMAIN final_itinerary' = {"error"} ]_vars

C4_Witness ==
    /\ last_call.op = "optimize_itinerary"
    /\ ~last_call.narrated
    /\ DOMAIN final_itinerary = {"error"}

-----------------------------------------------------------------------------
(* Properties of optimize_itinerary *)

Narrated(call) ==
    call.op = "optimize_itinerary" /\ call.narrated /\ call.response # OracleRaises

\* the text from i to j is one well-formed JSON object
IsObject(resp, i, j) == i < j /\ Decodable(SubSeq(resp, i, j))

HoldsObject(resp) == \E i, j \in 1..Len(resp) : IsObject(resp, i, j)

\* the first top-level JSON object of the response
FirstTopLevelObject(resp) ==
    LET i == SetMin({a \in 1..Len(resp) : \E b \in 1..Len(resp) : IsObject(resp, a, b)})
        j == SetMin({b \in 1..Len(resp) : IsObject(resp, i, b)})
    IN  SubSeq(resp, i, j)

\* C6 as stated: for every response holding a well-formed JSON object, the
\* first top-level object of the response is what is stored under
\* creative_plan, whatever text precedes or follows it.
C6_FirstObjectStored ==
    (Narrated(last_call) /\ HoldsObject(last_call.response)) =>
        /\ "creative_plan" \in DOMAIN final_itinerary
        /\ final_itinerary["creative_plan"] = Loads(FirstTopLevelObject(last_call.response))

\* C6 amended: optimize_itinerary parses the text from the first "{" to the
\* last "}" of the response.  When that text is one well-formed JSON object
\* (prose without braces may precede and follow it) it is the first top-level
\* object and is stored under creative_plan; otherwise (a brace in the text
\* before or after the object, a second object) nothing is stored under
\* creative_plan and error_message is set.
C6_OutermostBracesStored ==
    Narrated(last_call) =>
        LET resp == last_call.response
            a == FirstOpen(resp)
            b == LastClose(resp)
        IN  IF a # 0 /\ IsObject(resp, a, b)
            THEN /\ "creative_plan" \in DOMAIN final_itinerary
                 /\ final_itinerary["creative_plan"] = Loads(SubSeq(resp, a, b))
                 /\ SubSeq(resp, a, b) = FirstTopLevelObject(resp)
            ELSE /\ "creative_plan" \notin DOMAIN final_itinerary
                 /\ "error_message" \in DOMAIN final_itinerary

C6_Witness ==
    /\ Narrated(last_call)
    /\ Len(last_call.response) >= 4
    /\ last_call.response[1] = "w"
    /\ last_call.response[Len(last_call.response)] = "w"
    /\ "creative_plan" \in DOMAIN final_itinerary

NarrationSucceeds(resp) == JsonMatch(resp) # <<>> /\ Decodable(JsonMatch(resp))

BaseFields == {"date_range", "flight", "hotel", "total_cost", "cost_breakdown"}

\* C7: when narration succeeds, optimize_itinerary only adds creative_plan:
\* every other field of final_itinerary, the base fields among them, keeps
\* its value even when the oracle's JSON has its own total_cost, and
\* global_score then equals final_itinerary's total_cost.
C7_NarrationOnlyAddsCreativePlan ==
    [][ (Narrated(last_call') /\ NarrationSucceeds(last_call'.response)
           /\ BaseFields \subseteq DOMAIN final_itinerary)
        => /\ DOMAIN final_itinerary' = DOMAIN final_itinerary \cup {"creative_plan"}
           /\ \A k \in DOMAIN final_itinerary \ {"creative_plan"} :
                 final_itinerary'[k] = final_itinerary[k]
           /\ global_score' = <<final_itinerary'["total_cost"]>>
           /\ final_itinerary'["total_cost"] = final_itinerary["total_cost"] ]_vars

C7_Witness ==
    /\ Narrated(last_call)
    /\ "creative_plan" \in DOMAIN final_itinerary
    /\ \E n \in 1..Len(final_itinerary["creative_plan"].object) :
          final_itinerary["creative_plan"].object[n].name = "tc"
    /\ global_score = <<final_itinerary["total_cost"]>>

\* C8: when the response holds no JSON object or the extracted text fails to
\* parse, optimize_itinerary does not raise: it adds error_message, adds no
\* creative_plan, and leaves every other field of final_itinerary and
\* global_score unchanged.
C8_FailedNarrationOnlyAddsErrorMessage ==
    [][ (Narrated(last_call') /\ ~NarrationSucceeds(last_call'.response)
           /\ BaseFields \subseteq DOMAIN final_itinerary)
        => /\ ~last_call'.raised
           /\ DOMAIN final_itinerary' = DOMAIN final_itinerary \cup {"error_message"}
           /\ \A k \in DOMAIN final_itinerary \ {"error_message"} :
                 final_itinerary'[k] = final_itinerary[k]
           /\ global_score' = global_score ]_vars

C8_Witness ==
    /\ Narrated(last_call)
    /\ JsonMatch(last_call.response) # <<>>
    /\ "error_message" \in DOMAIN final_itinerary
    /\ "creative_plan" \notin DOMAIN final_itinerary
    /\ BaseFields \subseteq DOMAIN final_itinerary

\* the successful attraction searches of one interest, in grouped order
SearchesOf(interest) ==
    SelectSeq(AttractionsResults(search_results),
              LAMBDA r : /\ r.tool = "search_attractions" /\ Succeeded(r)
                         /\ r.result.kind = "list"
                         /\ Get(r.params, "interest") = Txt(interest))

RECURSIVE OffersBefore(_, _)
OffersBefore(searches, r) ==
    IF r <= 1 THEN 0 ELSE OffersBefore(searches, r - 1) + Len(searches[r - 1].result.offers)

\* sent holds the first 5 attractions of the interest, in the order of the
\* records and of the offers inside each record
FirstFiveOf(sent, interest) ==
    LET searches == SearchesOf(interest)
        total == OffersBefore(searches, Len(searches) + 1)
    IN  /\ Len(sent) <= 5
        /\ Len(sent) = IF total < 5 THEN total ELSE 5
        /\ \A r \in 1..Len(searches) : \A n \in 1..Len(searches[r].result.offers) :
              OffersBefore(searches, r) + n <= 5
                => sent[OffersBefore(searches, r) + n] = searches[r].result.offers[n]

-----------------------------------------------------------------------------
(* Properties of generate_initial_plan *)

Planned == last_call.op = "generate_initial_plan" /\ ~last_call.raised

InPlan(step) == \E i \in 1..Len(current_plan) : current_plan[i] = step

\* the date arguments of a flight search and of a hotel search
DateArgs(step) ==
    IF step.name = "search_flights" THEN {"departure_date", "return_date"}
    ELSE IF step.name = "search_hotels" THEN {"checkin_date", "checkout_date"}
    ELSE {}

MonthLength(yy, mm) ==
    IF mm = 2 THEN (IF yy % 400 = 0 \/ (yy % 4 = 0 /\ yy % 100 # 0) THEN 29 ELSE 28)
    ELSE IF mm \in {1, 3, 5, 7, 8, 10, 12} THEN 31
    ELSE 30

RealDate(t) ==
    t.y \in 1..9999 /\ t.m \in 1..12 /\ t.d \in 1..MonthLength(t.y, t.m)

\* key="YYYY-MM-DD"
DateString(a) == a.present /\ a.quoted /\ a.text.kind = "date"

Proposed == IF last_call.proposal = <<>> THEN <<>> ELSE last_call.proposal.steps

\* C12 as stated: for every planning-oracle response, valid JSON of an
\* unexpected shape included, generate_initial_plan returns without raising.
C12_AlwaysRecovers ==
    last_call.op = "generate_initial_plan" => (~last_call.raised /\ pc = "planned")

\* C13 as stated: every step kept in current_plan has a call name that is
\* exactly one of the three registered tools, and a proposed step with any
\* other name is dropped.
C13_KeptStepsResolvable ==
    Planned =>
        /\ \A i \in 1..Len(current_plan) : current_plan[i].name \in ToolNames
        /\ \A i \in 1..Len(Proposed) :
              (Proposed[i].is_text /\ Proposed[i].call.name \notin ToolNames)
                 => ~InPlan(Proposed[i].call)

\* C14 as stated: every flight-search step kept in current_plan carries a
\* departure_date that is a YYYY-MM-DD real calendar date.
C14_KeptFlightsHaveDeparture ==
    Planned =>
        \A i \in 1..Len(current_plan) :
            current_plan[i].name = "search_flights" =>
                /\ DateString(current_plan[i].args["departure_date"])
                /\ RealDate(current_plan[i].args["departure_date"].text)

\* C15 as stated: a flight-search step with a valid departure_date is kept
\* when its return_date is omitted, is None unquoted or is "None" quoted.
C15_NullReturnDateAccepted ==
    Planned =>
        \A i \in 1..Len(Proposed) :
            LET step == Proposed[i].call IN
            (/\ Proposed[i].is_text
             /\ step.name = "search_flights"
             /\ DateString(step.args["departure_date"])
             /\ RealDate(step.args["departure_date"].text)
             /\ (~step.args["return_date"].present
                   \/ step.args["return_date"].text.kind = "none"))
               => InPlan(step)

GoodHotel(step) ==
    /\ step.name = "search_hotels"
    /\ \A k \in {"checkin_date", "checkout_date"} :
          DateString(step.args[k]) /\ RealDate(step.args[k].text)

ProposedCalls == [i \in 1..Len(Proposed) |-> Proposed[i].call]

\* C25 as stated: current_plan is an order-preserving subsequence of the
\* proposed plan (steps are only dropped, never reordered, duplicated or
\* rewritten) and every attraction-search step of the proposal is in
\* current_plan unchanged.
C25_SubsequenceKeepingAttractions ==
    (Planned /\ Cleaned(last_call.proposal).json = "object"
       /\ last_call.proposal.plan = "list") =>
        /\ IsSubseq(current_plan, ProposedCalls)
        /\ \A i \in 1..Len(Proposed) :
              Proposed[i].call.name = "search_attractions" => InPlan(Proposed[i].call)

\* C25, the part that holds: validation only drops steps.
C25_OnlyDrops ==
    (Planned /\ Cleaned(last_call.proposal).json = "object"
       /\ last_call.proposal.plan = "list") =>
        IsSubseq(current_plan, ProposedCalls)

-----------------------------------------------------------------------------
(* Properties of the whole pipeline *)

\* what is left after the fence stripping is no JSON text
NotJson(response) == response.json = "invalid" \/ response.fence = "plain"

\* C11: when the planning oracle's response is no valid JSON after the fence
\* stripping, generate_initial_plan returns with an empty current_plan; on an
\* empty plan execute_plan invokes no adapter and leaves execution_history
\* and search_results empty, find_best_option then yields the error-only
\* final_itinerary, and optimize_itinerary then does not invoke the oracle.
C11_InvalidJsonGivesEmptyRun ==
    [][ /\ (last_call'.op = "generate_initial_plan" /\ NotJson(last_call'.proposal))
           => (~last_call'.raised /\ current_plan' = <<>> /\ pc' = "planned")
        /\ (last_call'.op = "execute_plan" /\ current_plan = <<>>)
           => /\ ~last_call'.raised /\ last_call'.invoked = <<>>
              /\ execution_history' = <<>> /\ search_results' = <<>>
              /\ current_plan' = <<>> /\ pc' = "executed"
        /\ (last_call'.op = "find_best_option" /\ search_results = <<>>)
           => /\ ~last_call'.raised /\ DOMAIN final_itinerary' = {"error"}
              /\ search_results' = <<>> /\ pc' = "selected"
        /\ (last_call'.op = "optimize_itinerary" /\ DOMAIN final_itinerary = {"error"})
           => /\ ~last_call'.raised /\ ~last_call'.narrated
              /\ final_itinerary' = final_itinerary /\ pc' = "composed" ]_vars

C11_Witness ==
    /\ pc = "composed"
    /\ current_plan = <<>>
    /\ execution_history = <<>>
    /\ search_results = <<>>
    /\ DOMAIN final_itinerary = {"error"}
    /\ last_call.op = "optimize_itinerary" /\ ~last_call.narrated

C27_NarrationLeavesCostTable ==
    [][ last_call'.op = "optimize_itinerary"
        => /\ constraints' = constraints
           /\ current_plan' = current_plan
           /\ execution_history' = execution_history
           /\ search_results' = search_results ]_vars

\* find_best_option has returned on this state
AfterSelection ==
    pc \in {"selected", "composed"} \/ (pc = "failed" /\ last_call.op = "optimize_itinerary")

\* C20: in every state reached after find_best_option has run, before and
\* after optimize_itinerary, final_itinerary holds either only the error
\* field, or the five base fields, or the five base fields with creative_plan
\* and/or error_message, and nothing else.
C20_ThreeShapes ==
    AfterSelection =>
        \/ DOMAIN final_itinerary = {"error"}
        \/ /\ BaseFields \subseteq DOMAIN final_itinerary
           /\ DOMAIN final_itinerary \subseteq BaseFields \cup {"creative_plan", "error_message"}

C20_Witness ==
    /\ pc = "composed"
    /\ DOMAIN final_itinerary = BaseFields \cup {"creative_plan", "error_message"}

-----------------------------------------------------------------------------
(* Properties of normalize_dates *)

\* C28 as stated: for every request text and every today, the departure and
\* check-in date returned by normalize_dates is not earlier than today, also
\* when the month named in the request has already ended in today's year.
C28_DepartureNotBeforeToday ==
    last_call.op = "normalize_dates" =>
        /\ ~Later(last_call.response[1].today, last_call.invoked[1].depart_date)
        /\ ~Later(last_call.response[1].today, last_call.invoked[1].checkin_date)

\* C28, the part that holds: when the month taken from the request (today's
\* month when it names none) has not ended in today's year, the date is the
\* first day of that month that is not before today.
C28_NotBeforeTodayInOpenMonth ==
    last_call.op = "normalize_dates" =>
        LET today == last_call.response[1].today
            month == OrElse(ParseMonth(last_call.response[1].query), today.m)
            depart == last_call.invoked[1].depart_date
        IN  /\ depart.y = today.y /\ depart.m = month
            /\ depart = last_call.invoked[1].checkin_date
            /\ month >= today.m =>
                  /\ ~Later(today, depart)
                  /\ depart = IF month = today.m THEN today ELSE DateTxt(today.y, month, 1)
            /\ month < today.m => depart = DateTxt(today.y, month, 1)

-----------------------------------------------------------------------------
(* Properties of the provider adapters *)

\* C18 as stated: no provider adapter lets an exception cross its boundary;
\* for every provider response, a flight without a price and a provider
\* exception that is no network error included, the adapter returns a list
\* of offers or an object with an error field.
C18_NoExceptionCrossesAdapter ==
    last_call.op \in ToolNames =>
        /\ ~last_call.raised
        /\ last_call.invoked[1].kind \in {"list", "error_payload"}

====
